---- MODULE Spec2Model ----
(***************************************************************************)
(* Model of image-converter-pro (src/main.py): the batch worker            *)
(* ImageProcessor (run, process_image, save_image,                         *)
(* find_quality_for_target_size) and the part of ImageConverterApp that    *)
(* feeds it (file list, output directory, process_images, signal slots).   *)
(*                                                                         *)
(* Strings that the code takes apart or concatenates (paths, prefix,       *)
(* suffix, output format, watermark text) are sequences of one-character   *)
(* strings, so that Path.stem, Path.suffix, Path.parent, str.lower and     *)
(* os.path.join are computed as the library computes them (POSIX paths).   *)
(* Pixel data is not modelled: an image is the record of what produced it, *)
(* and the codec is an oracle EncodedSize(img, format, quality).           *)
(* Display-only widgets (labels, progress bar, preview) are left out.      *)
(***************************************************************************)
EXTENDS Integers, Sequences, FiniteSets, TLC

VARIABLES
    \* ImageConverterApp
    selected_files,       \* self.selected_files; the worker's self.files is this same list object
    output_directory,     \* self.output_directory ("" is the empty sequence)
    controls_enabled,     \* btn_process / btn_add_files / tabs enabled (set together)
    dialog,               \* the modal QMessageBox on screen, or "none"
    made_dirs,            \* directories created by os.makedirs
    dir_chosen,           \* history: the directory dialog has been answered with a directory
    \* the file system, as far as the program reads it back
    fs,                   \* input path -> [bytes, img]
    \* ImageProcessor
    pc,                   \* position of the worker thread in run()
    settings,             \* self.settings
    output_dir,           \* self.output_dir
    total,                \* local of run(): len(self.files) taken once
    idx,                  \* enumerate index of run()
    file_path,            \* loop variable of run()
    total_original_size,  \* self.total_original_size
    total_new_size,       \* self.total_new_size
    pending,              \* save_image calls process_image still has to make for the current file
    low, high, best_quality, iter, quality,   \* locals of find_quality_for_target_size / save_image
    probes,               \* probe encodes (to io.BytesIO) of the current save_image call
    decoded,              \* the files Image.open has decoded in this run, with the size read
    written,              \* img.save calls to disk of this run
    emitted               \* signals emitted by this worker, in order

ui_vars == <<selected_files, output_directory, controls_enabled, dialog, made_dirs, dir_chosen>>
search_vars == <<low, high, best_quality, iter, quality, probes>>
worker_vars == <<pc, settings, output_dir, total, idx, file_path, total_original_size,
                 total_new_size, pending, decoded, written, emitted>>
vars == <<ui_vars, fs, worker_vars, search_vars>>

---------------------------------------------------------------------------
(* Strings *)

Str0 == <<>>
SLASH == "/"
DOT == "."

Max(S) == CHOOSE x \in S : \A y \in S : y <= x

\* str.rfind(c) + 1: the last position of c in s, 0 when absent
RFind(s, c) ==
    LET I == {i \in 1..Len(s) : s[i] = c}
    IN IF I = {} THEN 0 ELSE Max(I)

LowerChar(c) ==
    CASE c = "J" -> "j"
      [] c = "P" -> "p"
      [] c = "G" -> "g"
      [] c = "N" -> "n"
      [] c = "T" -> "t"
      [] c = "X" -> "x"
      [] OTHER -> c

\* str.lower()
Lower(s) == [i \in 1..Len(s) |-> LowerChar(s[i])]

\* PurePath.name: the final path component
PathName(p) == SubSeq(p, RFind(p, SLASH) + 1, Len(p))

\* PurePath.suffix: from the last dot of the name, unless the dot is first or last
PathSuffix(p) ==
    LET name == PathName(p)
        j == RFind(name, DOT)
    IN IF 1 < j /\ j < Len(name) THEN SubSeq(name, j, Len(name)) ELSE Str0

MutPathStem(p) == PathName(p)

\* PurePath.stem: the name without its suffix
PathStem(p) ==
    LET name == PathName(p)
        j == RFind(name, DOT)
    IN IF 1 < j /\ j < Len(name) THEN SubSeq(name, 1, j - 1) ELSE name

\* str(Path(p).parent)
PathParent(p) ==
    LET k == RFind(p, SLASH)
    IN IF k = 0 THEN <<DOT>>
       ELSE IF k = 1 THEN <<SLASH>>
       ELSE SubSeq(p, 1, k - 1)

\* os.path.join(a, b) of posixpath
PathJoin(a, b) ==
    IF b # Str0 /\ b[1] = SLASH THEN b
    ELSE IF a = Str0 \/ a[Len(a)] = SLASH THEN a \o b
    ELSE a \o <<SLASH>> \o b

WEBP == <<"w", "e", "b", "p">>
JPG == <<"j", "p", "g">>
JPEG == <<"j", "p", "e", "g">>
PNG == <<"p", "n", "g">>
UPPER_JPG == <<"J", "P", "G">>

EXT_PNG == <<DOT>> \o PNG
EXT_JPG == <<DOT>> \o JPG
EXT_JPEG == <<DOT>> \o JPEG
EXT_BMP == <<DOT, "b", "m", "p">>
EXT_GIF == <<DOT, "g", "i", "f">>
EXT_TIFF == <<DOT, "t", "i", "f", "f">>
EXT_WEBP == <<DOT>> \o WEBP

\* dropEvent's image_extensions
image_extensions == {EXT_PNG, EXT_JPG, EXT_JPEG, EXT_BMP, EXT_GIF, EXT_TIFF, EXT_WEBP}

PROCESSED_IMAGES ==
    <<"p", "r", "o", "c", "e", "s", "s", "e", "d", " ", "i", "m", "a", "g", "e", "s">>

---------------------------------------------------------------------------
(* The codec and the input files *)

\* What the encoder does to one decoded source image: the byte size of its
\* lossy encoding as a function of quality, and of its PNG encoding.
Codec(base, slope, dip_lo, dip_hi, dip, png) ==
    [base |-> base, slope |-> slope, dip_lo |-> dip_lo, dip_hi |-> dip_hi,
     dip |-> dip, png |-> png]

\* size of buffer / file after img.save(.., 'WEBP' or 'JPEG', quality=q)
LossySize(c, q) ==
    c.base + c.slope * q - (IF c.dip_lo <= q /\ q <= c.dip_hi THEN c.dip ELSE 0)

\* a half produced by img.crop holds half of the pixels (the second half the odd rest)
PartSize(bytes, part) ==
    CASE part = "full" -> bytes
      [] part \in {"top", "left"} -> bytes \div 2
      [] OTHER -> bytes - (bytes \div 2)

\* bytes img.save produces for a decoded image, a lower-cased format and a quality
EncodedSize(img, fmt, q) ==
    PartSize(IF fmt = PNG THEN img.src.png ELSE LossySize(img.src, q), img.part)

QUALITY_MIN == 1
QUALITY_MAX == 100
\* the input files of the model
FILE_A == <<SLASH, "d", SLASH, "a">> \o EXT_PNG
FILE_B == <<SLASH, "e", SLASH, "a">> \o EXT_JPG
FILE_N == <<SLASH, "d", SLASH, "n", DOT, "t", "x", "t">>
InputPaths == {FILE_A, FILE_B, FILE_N}

DIR_D == <<SLASH, "d">>
DIR_E == <<SLASH, "e">>
DIR_RO == <<SLASH, "r", "o">>
\* directories that exist before the program runs; DIR_RO is not writable
ExistingDirs == {DIR_D, DIR_E, DIR_RO}
ReadOnlyDirs == {DIR_RO}

CODEC_A == Codec(2048, 512, 0, 0, 0, 30000)
CODEC_B == Codec(20000, 100, 0, 0, 0, 40000)

\* a file: its byte size (os.path.getsize), whether Image.open can decode it,
\* and how the decoded image encodes
File(bytes, image, codec) == [bytes |-> bytes, image |-> image, codec |-> codec]

FsInit ==
    (FILE_A :> File(50000, TRUE, CODEC_A)) @@
    (FILE_B :> File(9000, TRUE, CODEC_B)) @@
    (FILE_N :> File(10, FALSE, CODEC_A))

---------------------------------------------------------------------------
(* ImageProcessor *)

MutMaxIterations == 10 + 1

MAX_ITERATIONS == 10
DEFAULT_BEST == 85
KB == 1024
\* img.save(output_path, 'PNG', optimize=True) takes no quality
NO_QUALITY == -1

MARK_TOP == <<"_", "t", "o", "p">>
MARK_BOTTOM == <<"_", "b", "o", "t", "t", "o", "m">>
MARK_LEFT == <<"_", "l", "e", "f", "t">>
MARK_RIGHT == <<"_", "r", "i", "g", "h", "t">>

Settings(q, cut, fmt, prefix, suffix, target, wm, text) ==
    [quality |-> q, cut_mode |-> cut, output_format |-> fmt, filename_prefix |-> prefix,
     filename_suffix |-> suffix, target_size_kb |-> target, watermark_enabled |-> wm,
     watermark_text |-> text]

\* settings.get('output_format', 'webp').lower()
output_format == Lower(settings.output_format)

MutIsLossy(fmt) == TRUE

\* the formats find_quality_for_target_size encodes to its buffer
IsLossy(fmt) == fmt = WEBP \/ fmt \in {JPG, JPEG}

\* directories img.save can create a file in
WritableDirs == (ExistingDirs \cup made_dirs) \ ReadOnlyDirs

\* int((idx + 1) / total * 100): float division, then truncation. For total < 50
\* the float result truncates to the exact quotient (the first difference is
\* 29/50, which gives 57).
IntPercent(k, n) == (k * 100) \div n

\* add_watermark: an empty text returns the image as it is
add_watermark(img) ==
    IF settings.watermark_text = Str0 THEN img ELSE [img EXCEPT !.wm = TRUE]

\* process_image up to the cut: Image.open, then the watermark if enabled
\* (metadata strip, resize and RGB conversion change pixels only)
Transform(file) ==
    LET img == [src |-> fs[file].codec, part |-> "full", wm |-> FALSE]
    IN IF settings.watermark_enabled THEN add_watermark(img) ELSE img

\* the save_image calls of process_image for one decoded image, in order
Outputs(file, img) ==
    LET base_name == settings.filename_prefix \o PathStem(file) \o settings.filename_suffix
        Out(part, marker) ==
            [img |-> [img EXCEPT !.part = part],
             path |-> PathJoin(output_dir, base_name \o marker \o <<DOT>> \o output_format)]
    IN CASE settings.cut_mode = "none" -> <<Out("full", Str0)>>
         [] settings.cut_mode = "horizontal" -> <<Out("top", MARK_TOP), Out("bottom", MARK_BOTTOM)>>
         [] settings.cut_mode = "vertical" -> <<Out("left", MARK_LEFT), Out("right", MARK_RIGHT)>>
         [] OTHER -> <<>>

MutRaise ==
    /\ emitted' = Append(emitted, [sig |-> "error", val |-> 0])
    /\ pc' = "progress"

\* the except clause of run(): self.error.emit, and run() returns
Raise ==
    /\ emitted' = Append(emitted, [sig |-> "error", val |-> 0])
    /\ pc' = "failed"

\* run(): total = len(self.files), the loop is entered
run ==
    /\ pc = "start"
    /\ total' = Len(selected_files)
    /\ idx' = 0
    /\ pc' = "loop"
    /\ UNCHANGED <<ui_vars, fs, settings, output_dir, file_path, total_original_size,
                   total_new_size, pending, decoded, written, emitted, search_vars>>

\* the list iterator yields the next file; process_image runs up to its first save_image
process_image ==
    /\ pc = "loop"
    /\ idx < Len(selected_files)
    /\ LET file == selected_files[idx + 1] IN
        /\ file_path' = file
        /\ total_original_size' = total_original_size + fs[file].bytes
        /\ IF ~fs[file].image
           THEN Raise /\ UNCHANGED <<decoded, pending>>
           ELSE /\ decoded' = Append(decoded, [pos |-> idx, path |-> file, bytes |-> fs[file].bytes])
                /\ pending' = Outputs(file, Transform(file))
                /\ pc' = IF pending' = <<>> THEN "progress" ELSE "save"
                /\ UNCHANGED emitted
    /\ UNCHANGED <<ui_vars, fs, settings, output_dir, total, idx, total_new_size, written,
                   search_vars>>

\* save_image, up to the first probe or the final encode
save_image ==
    /\ pc = "save"
    /\ probes' = <<>>
    /\ IF settings.target_size_kb > 0
       THEN /\ low' = QUALITY_MIN
            /\ high' = QUALITY_MAX
            /\ best_quality' = DEFAULT_BEST
            /\ iter' = 0
            /\ pc' = "search"
            /\ UNCHANGED quality
       ELSE /\ quality' = settings.quality
            /\ pc' = "encode"
            /\ UNCHANGED <<low, high, best_quality, iter>>
    /\ UNCHANGED <<ui_vars, fs, settings, output_dir, total, idx, file_path,
                   total_original_size, total_new_size, pending, decoded, written, emitted>>

\* the loop of find_quality_for_target_size still has an iteration to run
SearchContinues == iter < MAX_ITERATIONS

MutWithinTarget(size) == size < settings.target_size_kb * KB

\* size <= target_size_bytes, with target_size_bytes = target_size_kb * 1024
WithinTarget(size) == size <= settings.target_size_kb * KB

MutProbe ==
    /\ pc = "search"
    /\ SearchContinues
    /\ LET mid == (low + high) \div 2
           img == Head(pending).img
           size == EncodedSize(img, output_format, mid)
       IN IF IsLossy(output_format)
          THEN /\ probes' = Append(probes, [quality |-> mid, size |-> size, low |-> low, high |-> high])
               /\ best_quality' = mid
               /\ IF WithinTarget(size)
                  THEN low' = mid + 1 /\ UNCHANGED high
                  ELSE high' = mid - 1 /\ UNCHANGED low
               /\ iter' = iter + 1
               /\ UNCHANGED <<pc, quality>>
          ELSE /\ quality' = mid
               /\ pc' = "encode"
               /\ UNCHANGED <<low, high, best_quality, iter, probes>>
    /\ UNCHANGED <<ui_vars, fs, settings, output_dir, total, idx, file_path,
                   total_original_size, total_new_size, pending, decoded, written, emitted>>

\* one iteration of find_quality_for_target_size
probe ==
    /\ pc = "search"
    /\ SearchContinues
    /\ LET mid == (low + high) \div 2
           img == Head(pending).img
           size == EncodedSize(img, output_format, mid)
       IN IF IsLossy(output_format)
          THEN /\ probes' = Append(probes, [quality |-> mid, size |-> size, low |-> low, high |-> high])
               /\ IF WithinTarget(size)
                  THEN /\ best_quality' = mid
                       /\ low' = mid + 1
                       /\ UNCHANGED high
                  ELSE /\ high' = mid - 1
                       /\ UNCHANGED <<best_quality, low>>
               /\ iter' = iter + 1
               /\ UNCHANGED <<pc, quality>>
          ELSE \* return mid: PNG doesn't support quality
               /\ quality' = mid
               /\ pc' = "encode"
               /\ UNCHANGED <<low, high, best_quality, iter, probes>>
    /\ UNCHANGED <<ui_vars, fs, settings, output_dir, total, idx, file_path,
                   total_original_size, total_new_size, pending, decoded, written, emitted>>

MutSearchReturn ==
    /\ pc = "search"
    /\ ~SearchContinues
    /\ quality' = DEFAULT_BEST
    /\ pc' = "encode"
    /\ UNCHANGED <<ui_vars, fs, settings, output_dir, total, idx, file_path,
                   total_original_size, total_new_size, pending, decoded, written, emitted,
                   low, high, best_quality, iter, probes>>

\* the loop is exhausted: return best_quality
search_return ==
    /\ pc = "search"
    /\ ~SearchContinues
    /\ quality' = best_quality
    /\ pc' = "encode"
    /\ UNCHANGED <<ui_vars, fs, settings, output_dir, total, idx, file_path,
                   total_original_size, total_new_size, pending, decoded, written, emitted,
                   low, high, best_quality, iter, probes>>

\* the img.save to output_path and the size tracking that end save_image
encode ==
    /\ pc = "encode"
    /\ LET out == Head(pending)
           fmt == output_format
           q == IF fmt = PNG THEN NO_QUALITY ELSE quality
           bytes == EncodedSize(out.img, fmt, quality)
       IN IF PathParent(out.path) \notin WritableDirs
          THEN Raise /\ UNCHANGED <<written, fs, total_new_size, pending>>
          ELSE /\ written' = Append(written, [path |-> out.path, img |-> out.img, format |-> fmt,
                                              quality |-> q, bytes |-> bytes, pos |-> idx])
               /\ fs' = IF out.path \in DOMAIN fs
                        THEN [fs EXCEPT ![out.path] = File(bytes, TRUE, out.img.src)]
                        ELSE fs
               /\ total_new_size' = total_new_size + bytes
               /\ pending' = Tail(pending)
               /\ pc' = IF Tail(pending) = <<>> THEN "progress" ELSE "save"
               /\ UNCHANGED emitted
    /\ UNCHANGED <<ui_vars, settings, output_dir, total, idx, file_path, total_original_size,
                   decoded, search_vars>>

\* self.progress.emit(int((idx + 1) / total * 100)); ZeroDivisionError when total is 0
emit_progress ==
    /\ pc = "progress"
    /\ IF total = 0
       THEN Raise /\ UNCHANGED idx
       ELSE /\ emitted' = Append(emitted, [sig |-> "progress", val |-> IntPercent(idx + 1, total)])
            /\ idx' = idx + 1
            /\ pc' = "loop"
    /\ UNCHANGED <<ui_vars, fs, settings, output_dir, total, file_path, total_original_size,
                   total_new_size, pending, decoded, written, search_vars>>

\* 'percentage' of the statistics, as the exact fraction num/den
Percentage(original, new) ==
    IF original > 0 THEN [num |-> (original - new) * 100, den |-> original]
    ELSE [num |-> 0, den |-> 1]

MutEmitStats ==
    /\ pc = "loop"
    /\ idx >= Len(selected_files)
    /\ emitted' = Append(emitted, [sig |-> "finished", val |-> total])
    /\ pc' = "finish"
    /\ UNCHANGED <<ui_vars, fs, settings, output_dir, total, idx, file_path,
                   total_original_size, total_new_size, pending, decoded, written, search_vars>>

\* the loop has ended: self.stats_update.emit(stats)
emit_stats ==
    /\ pc = "loop"
    /\ idx >= Len(selected_files)
    /\ emitted' = Append(emitted,
            [sig |-> "stats",
             val |-> [total_files |-> total,
                      original_size |-> total_original_size,
                      new_size |-> total_new_size,
                      savings |-> total_original_size - total_new_size,
                      percentage |-> Percentage(total_original_size, total_new_size)]])
    /\ pc' = "finish"
    /\ UNCHANGED <<ui_vars, fs, settings, output_dir, total, idx, file_path,
                   total_original_size, total_new_size, pending, decoded, written, search_vars>>

\* self.finished.emit(...), and run() returns
emit_finished ==
    /\ pc = "finish"
    /\ emitted' = Append(emitted, [sig |-> "finished", val |-> total])
    /\ pc' = "done"
    /\ UNCHANGED <<ui_vars, fs, settings, output_dir, total, idx, file_path,
                   total_original_size, total_new_size, pending, decoded, written, search_vars>>

WorkerNext ==
    \/ run
    \/ process_image
    \/ save_image
    \/ probe
    \/ search_return
    \/ encode
    \/ emit_progress
    \/ emit_stats
    \/ emit_finished

---------------------------------------------------------------------------
(* ImageConverterApp *)

\* model bounds
MaxPick == 2
MaxFiles == 2
MaxTargetKb == 102

\* what one file dialog or one drop can hand over: a list of paths
PickLists == UNION {[1..n -> InputPaths] : n \in 1..MaxPick}

Contains(list, x) == \E i \in 1..Len(list) : list[i] = x

\* add_files: every file of the dialog's answer that is not in the list yet is appended
RECURSIVE AppendNew(_, _)
AppendNew(list, files) ==
    IF files = <<>> THEN list
    ELSE AppendNew(IF Contains(list, Head(files)) THEN list ELSE Append(list, Head(files)),
                   Tail(files))

\* dropEvent: as add_files, for the files whose lower-cased suffix is an image extension
RECURSIVE AppendNewImages(_, _)
AppendNewImages(list, files) ==
    IF files = <<>> THEN list
    ELSE AppendNewImages(
            IF Lower(PathSuffix(Head(files))) \in image_extensions /\ ~Contains(list, Head(files))
            THEN Append(list, Head(files)) ELSE list,
            Tail(files))

\* the modal message box blocks the window's input until it is dismissed
UserCanAct == dialog = "none"

add_files(files) ==
    /\ UserCanAct
    /\ controls_enabled
    /\ selected_files' = AppendNew(selected_files, files)
    /\ UNCHANGED <<output_directory, controls_enabled, dialog, made_dirs, dir_chosen, fs,
                   worker_vars, search_vars>>

\* the main window accepts drops whether or not the tabs are enabled
dropEvent(files) ==
    /\ UserCanAct
    /\ selected_files' = AppendNewImages(selected_files, files)
    /\ UNCHANGED <<output_directory, controls_enabled, dialog, made_dirs, dir_chosen, fs,
                   worker_vars, search_vars>>

clear_files ==
    /\ UserCanAct
    /\ controls_enabled
    /\ selected_files' = <<>>
    /\ UNCHANGED <<output_directory, controls_enabled, dialog, made_dirs, dir_chosen, fs,
                   worker_vars, search_vars>>

\* QFileDialog.getExistingDirectory: an existing directory, or "" when cancelled
choose_output_directory(directory) ==
    /\ UserCanAct
    /\ controls_enabled
    /\ output_directory' = IF directory # Str0 THEN directory ELSE output_directory
    /\ dir_chosen' = (dir_chosen \/ directory # Str0)
    /\ UNCHANGED <<selected_files, controls_enabled, dialog, made_dirs, fs,
                   worker_vars, search_vars>>

\* ImageProcessor(self.selected_files, self.output_directory, settings) and start()
NewWorker(s, dir) ==
    /\ settings' = s
    /\ output_dir' = dir
    /\ total_original_size' = 0
    /\ total_new_size' = 0
    /\ pc' = "start"
    /\ total' = 0
    /\ idx' = 0
    /\ file_path' = Str0
    /\ pending' = <<>>
    /\ decoded' = <<>>
    /\ written' = <<>>
    /\ emitted' = <<>>
    /\ low' = 0 /\ high' = 0 /\ best_quality' = 0 /\ iter' = 0 /\ quality' = 0
    /\ probes' = <<>>

MutWatermarkInvalid(s) == FALSE

\* "Validate watermark": enabled with an empty text
WatermarkInvalid(s) == s.watermark_enabled /\ s.watermark_text = Str0

\* the values get_settings can read from the widgets: s is what they hold when
\* the button is pressed (the tabs are editable whenever the button is enabled)
process_images(s) ==
    /\ UserCanAct
    /\ controls_enabled
    /\ IF selected_files = <<>>
       THEN /\ dialog' = "No Images"
            /\ UNCHANGED <<selected_files, output_directory, controls_enabled, made_dirs, dir_chosen,
                           fs, worker_vars, search_vars>>
       ELSE IF WatermarkInvalid(s)
       THEN /\ dialog' = "Watermark Text Required"
            /\ UNCHANGED <<selected_files, output_directory, controls_enabled, made_dirs, dir_chosen,
                           fs, worker_vars, search_vars>>
       ELSE LET auto == PathJoin(PathParent(selected_files[1]), PROCESSED_IMAGES)
                dir == IF output_directory = Str0 THEN auto ELSE output_directory
            IN /\ output_directory' = dir
               /\ made_dirs' = IF output_directory = Str0 THEN made_dirs \cup {auto} ELSE made_dirs
               /\ controls_enabled' = FALSE
               /\ NewWorker(s, dir)
               /\ UNCHANGED <<selected_files, dialog, dir_chosen, fs>>

\* the thread has returned from run(): nothing reads its fields again
Retire ==
    /\ pc' = "none"
    /\ settings' = Settings(0, "none", WEBP, Str0, Str0, 0, FALSE, Str0)
    /\ output_dir' = Str0
    /\ total' = 0
    /\ idx' = 0
    /\ file_path' = Str0
    /\ total_original_size' = 0
    /\ total_new_size' = 0
    /\ pending' = <<>>
    /\ decoded' = <<>>
    /\ written' = <<>>
    /\ emitted' = <<>>
    /\ low' = 0 /\ high' = 0 /\ best_quality' = 0 /\ iter' = 0 /\ quality' = 0
    /\ probes' = <<>>

\* the slot of the finished signal
processing_finished ==
    /\ pc = "done"
    /\ controls_enabled' = TRUE
    /\ dialog' = "Success"
    /\ Retire
    /\ UNCHANGED <<selected_files, output_directory, made_dirs, dir_chosen, fs>>

\* the slot of the error signal
processing_error ==
    /\ pc = "failed"
    /\ controls_enabled' = TRUE
    /\ dialog' = "Error"
    /\ Retire
    /\ UNCHANGED <<selected_files, output_directory, made_dirs, dir_chosen, fs>>

\* the user closes the message box
dismiss ==
    /\ dialog # "none"
    /\ dialog' = "none"
    /\ UNCHANGED <<selected_files, output_directory, controls_enabled, made_dirs, dir_chosen,
                   fs, worker_vars, search_vars>>

---------------------------------------------------------------------------
(* Inputs *)

TEXT_W == <<"w">>
PREFIX_ABS == <<SLASH, "d", SLASH>>
SUFFIX_S == <<"_", "s">>

Watermarks == {<<FALSE, Str0>>, <<TRUE, Str0>>, <<TRUE, TEXT_W>>}

\* settings the window can produce (get_output_format: jpg, png or webp;
\* target_size_spinbox: 10..10000 when checked, else 0)
\* each output format, with at most one of cut, target size and watermark set
UiSettings ==
    LET All == {Settings(60, cut, fmt, Str0, Str0, target, wm[1], wm[2]) :
                    cut \in {"none", "horizontal", "vertical"}, fmt \in {WEBP, JPG, PNG},
                    target \in {0, 10}, wm \in Watermarks}
        Options(s) == {o \in {"cut", "target", "watermark"} :
                            \/ o = "cut" /\ s.cut_mode # "none"
                            \/ o = "target" /\ s.target_size_kb > 0
                            \/ o = "watermark" /\ s.watermark_enabled}
    IN {s \in All : Cardinality(Options(s)) <= 1}

\* the answers of the directory dialog: a directory, or "" when cancelled
ChoosableDirs == {DIR_D, DIR_RO, Str0}

\* settings a caller of ImageProcessor can pass
CoreSettings ==
    {Settings(60, cut, fmt, prefix, suffix, target, wm[1], wm[2]) :
        cut \in {"none", "horizontal", "vertical"}, fmt \in {WEBP, JPG, JPEG, PNG, UPPER_JPG},
        prefix \in {Str0, PREFIX_ABS}, suffix \in {Str0, SUFFIX_S},
        target \in {0, 10}, wm \in Watermarks}

\* lists without repetition of at most n input paths
Lists(n) ==
    {l \in UNION {[1..k -> InputPaths] : k \in 0..n} :
        \A i, j \in 1..Len(l) : i # j => l[i] # l[j]}

\* codecs of the quality search: linear in quality, with or without a dip
SearchCodecs ==
    {Codec(base, KB, d[1], d[2], d[3], 4 * KB) :
        base \in {512, 2 * KB},
        d \in {<<0, 0, 0>>, <<40, 60, 30 * KB>>, <<80, 90, 70 * KB>>}}

SearchSettings ==
    {Settings(60, "none", fmt, Str0, Str0, target, FALSE, Str0) :
        fmt \in {WEBP, JPG, JPEG, PNG}, target \in 0..MaxTargetKb}

---------------------------------------------------------------------------
(* Specifications *)

NoWorker ==
    /\ pc = "none"
    /\ settings = Settings(0, "none", WEBP, Str0, Str0, 0, FALSE, Str0)
    /\ output_dir = Str0
    /\ total = 0
    /\ idx = 0
    /\ file_path = Str0
    /\ total_original_size = 0
    /\ total_new_size = 0
    /\ pending = <<>>
    /\ decoded = <<>>
    /\ written = <<>>
    /\ emitted = <<>>
    /\ low = 0 /\ high = 0 /\ best_quality = 0 /\ iter = 0 /\ quality = 0
    /\ probes = <<>>

\* the window after ImageConverterApp.__init__
Init ==
    /\ selected_files = <<>>
    /\ output_directory = Str0
    /\ controls_enabled = TRUE
    /\ dialog = "none"
    /\ made_dirs = {}
    /\ dir_chosen = FALSE
    /\ fs = FsInit
    /\ NoWorker

Next ==
    \/ \E files \in PickLists : add_files(files)
    \/ \E files \in PickLists : dropEvent(files)
    \/ clear_files
    \/ \E directory \in ChoosableDirs : choose_output_directory(directory)
    \/ \E s \in UiSettings : process_images(s)
    \/ processing_finished
    \/ processing_error
    \/ dismiss
    \/ WorkerNext

Spec == Init /\ [][Next]_vars

\* a worker constructed on (files, dir, s) and started, with no window around it
Started(files, dir, s) ==
    /\ selected_files = files
    /\ output_directory = dir
    /\ controls_enabled = FALSE
    /\ dialog = "none"
    /\ made_dirs = {}
    /\ dir_chosen = FALSE
    /\ pc = "start"
    /\ settings = s
    /\ output_dir = dir
    /\ total = 0
    /\ idx = 0
    /\ file_path = Str0
    /\ total_original_size = 0
    /\ total_new_size = 0
    /\ pending = <<>>
    /\ decoded = <<>>
    /\ written = <<>>
    /\ emitted = <<>>
    /\ low = 0 /\ high = 0 /\ best_quality = 0 /\ iter = 0 /\ quality = 0
    /\ probes = <<>>

\* ImageProcessor alone, on every list, directory and settings record of the bounds
CoreInit ==
    /\ fs = FsInit
    /\ \E files \in Lists(MaxFiles), dir \in ExistingDirs, s \in CoreSettings :
        Started(files, dir, s)

CoreSpec == CoreInit /\ [][WorkerNext]_vars

\* ImageProcessor alone on one file, over the codecs and targets of the quality search
SearchInit ==
    /\ \E c \in SearchCodecs : fs = [FsInit EXCEPT ![FILE_A] = File(50000, TRUE, c)]
    /\ \E files \in {<<FILE_A>>, <<FILE_N>>, <<>>}, s \in SearchSettings :
        Started(files, DIR_D, s)

SearchSpec == SearchInit /\ [][WorkerNext]_vars

---------------------------------------------------------------------------
(* Claims *)

TargetBytes == settings.target_size_kb * 1024

\* the encoded size does not decrease as the quality goes from 1 to 100
Monotone(img, fmt) ==
    \A q \in 1..99 : EncodedSize(img, fmt, q) <= EncodedSize(img, fmt, q + 1)

\* the encoding of img in format fmt at quality q is within the target
Fits(img, fmt, q) == EncodedSize(img, fmt, q) <= TargetBytes

\* find_quality_for_target_size has returned to save_image for a lossy format
SearchReturned ==
    /\ pc = "encode"
    /\ settings.target_size_kb > 0
    /\ output_format \in {WEBP, JPG, JPEG}

SearchImg == Head(pending).img

\* C1: for a size function that is non-decreasing in quality and a target that
\* some quality of 1..100 meets, the search (webp, jpg, jpeg) returns the
\* largest quality of 1..100 whose encoded size is within the target, so the
\* next quality, if there is one, exceeds the target.
C1_ReturnsLargestFittingQuality ==
    (/\ SearchReturned
     /\ Monotone(SearchImg, output_format)
     /\ \E q \in 1..100 : Fits(SearchImg, output_format, q))
    => /\ quality \in 1..100
       /\ Fits(SearchImg, output_format, quality)
       /\ \A q \in 1..100 : Fits(SearchImg, output_format, q) => q <= quality
       /\ quality < 100 => ~Fits(SearchImg, output_format, quality + 1)

\* C1 witness: the search has returned a quality strictly inside 1..100 for a
\* monotone size function, the size at that quality being exactly the target
C1_Witness ==
    /\ SearchReturned
    /\ Monotone(SearchImg, output_format)
    /\ quality \in 2..99
    /\ EncodedSize(SearchImg, output_format, quality) = TargetBytes

\* C2: one call of find_quality_for_target_size makes at most 10 probe
\* encodes, whatever the format, the size function and the target.
C2_AtMostTenProbes == Len(probes) <= 10

\* C2 witness: a search that has returned after 10 probe encodes
C2_Witness == SearchReturned /\ Len(probes) = 10

\* distance of the encoded size at quality q from the target
Distance(img, fmt, q) ==
    LET d == EncodedSize(img, fmt, q) - TargetBytes
    IN IF d < 0 THEN 0 - d ELSE d

\* C3: when no quality of 1..100 meets the target, the output is still written
\* and the quality used is the one of 1..100 whose encoded size is nearest to
\* the target.
C3_ClosestQualityWhenUnreachable ==
    \A i \in 1..Len(written) :
        LET w == written[i]
        IN (/\ settings.target_size_kb > 0
            /\ w.format \in {WEBP, JPG, JPEG}
            /\ \A q \in 1..100 : ~Fits(w.img, w.format, q))
           => /\ w.quality \in 1..100
              /\ \A q \in 1..100 :
                    Distance(w.img, w.format, w.quality) <= Distance(w.img, w.format, q)


HasSignal(sig) == \E i \in 1..Len(emitted) : emitted[i].sig = sig

Count(sig) == Cardinality({i \in 1..Len(emitted) : emitted[i].sig = sig})

\* nothing at a position after idx has been decoded or written
NothingAfterIdx ==
    /\ \A j \in 1..Len(decoded) : decoded[j].pos <= idx
    /\ \A j \in 1..Len(written) : written[j].pos <= idx

\* C4: when processing the file at position i raises, the batch stops at once:
\* the worker is in its failed state with the failure notification as its last
\* signal, no file at a later position has been decoded or written, no
\* progress notification was emitted for file i and no summary was emitted.
C4_ExceptionStopsBatch ==
    HasSignal("error")
    => /\ pc = "failed"
       /\ emitted[Len(emitted)].sig = "error"
       /\ Count("progress") = idx
       /\ ~HasSignal("stats")
       /\ ~HasSignal("finished")
       /\ NothingAfterIdx

\* C4 witness: the batch has failed at its second file and a third file is left
C4_Witness ==
    /\ pc = "failed"
    /\ idx = 1
    /\ Len(selected_files) = 3
    /\ Len(decoded) = 1

\* the file at position idx was decoded and the run raised: its encoding failed
EncodeFailed == HasSignal("error") /\ \E j \in 1..Len(decoded) : decoded[j].pos = idx

\* C5 as stated: an encoding failure for one file does not end the batch; the
\* worker goes on to the next file of the list.
C5_EncodeFailureDoesNotEndBatch ==
    (EncodeFailed /\ idx + 1 < Len(selected_files)) => pc # "failed"

\* C5 as amended: an encoding failure for one file ends the batch: the worker
\* catches it, is in its failed state with the failure notification as its
\* only terminal signal, and has decoded and written no later file.
C5_EncodeFailureEndsBatch ==
    EncodeFailed
    => /\ pc = "failed"
       /\ emitted[Len(emitted)].sig = "error"
       /\ Count("error") = 1
       /\ Count("finished") = 0
       /\ NothingAfterIdx

\* C5 witness: the encoding of the first of two files has failed
C5_Witness ==
    /\ pc = "failed"
    /\ EncodeFailed
    /\ idx = 0
    /\ Len(selected_files) = 2
    /\ written = <<>>

Phase ==
    CASE pc \in {"none", "start"} -> "Idle"
      [] pc = "done" -> "Completed"
      [] pc = "failed" -> "Failed"
      [] OTHER -> "Running"

C6_Signals ==
    /\ Phase = "Idle" => emitted = <<>>
    /\ Phase = "Completed" <=> HasSignal("finished")
    /\ Phase = "Failed" <=> HasSignal("error")
    /\ Count("finished") + Count("error") <= 1
    /\ \A i \in 1..(Len(emitted) - 1) : emitted[i].sig \notin {"finished", "error"}
    /\ HasSignal("finished")
        => /\ Len(emitted) >= 2
           /\ emitted[Len(emitted) - 1].sig = "stats"
           /\ \A i \in 1..(Len(emitted) - 2) : emitted[i].sig = "progress"

C6_Steps ==
    /\ Phase' # Phase
        => <<Phase, Phase'>> \in {<<"Idle", "Running">>, <<"Running", "Completed">>,
                                  <<"Running", "Failed">>, <<"Completed", "Idle">>,
                                  <<"Failed", "Idle">>}
    /\ (Phase \in {"Completed", "Failed"} /\ Phase' = Phase) => emitted' = emitted

\* C6: every run goes Idle -> Running -> Completed or Failed (the slot of the
\* terminal signal then leaves the thread behind); a completed run has emitted
\* its progress notifications, then the statistics, then the success
\* notification; a failed run has the failure notification last; at most one
\* terminal notification is emitted and nothing is emitted after it.
C6_OneTerminalNotification == []C6_Signals /\ [][C6_Steps]_vars

\* C6 witness: a run has completed after two progress notifications
C6_Witness == pc = "done" /\ Count("progress") = 2 /\ Len(emitted) = 4


\* the progress notifications of the run, in order
ProgressSignals == SelectSeq(emitted, LAMBDA e : e.sig = "progress")

\* C7: in a batch of n files (n = the length of the list when the run began)
\* a progress notification is emitted after each completed file and only then;
\* the k-th carries floor(100 * k / n), every value is within 0..100, the
\* values never decrease, and a completed run has emitted exactly n of them,
\* the last being 100.
C7_ProgressIsPercentOfBatch ==
    LET P == ProgressSignals
    IN /\ Len(P) = idx
       /\ \A k \in 1..Len(P) : P[k].val = (100 * k) \div total /\ P[k].val \in 0..100
       /\ \A k \in 1..(Len(P) - 1) : P[k].val <= P[k + 1].val
       /\ pc = "done" => (Len(P) = total /\ P[Len(P)].val = 100)

RECURSIVE SumBytes(_)
SumBytes(log) == IF log = <<>> THEN 0 ELSE Head(log).bytes + SumBytes(Tail(log))

\* C8: the summary of a completed run has total_files equal to the number of
\* input files processed, original_size the sum of their byte sizes, new_size
\* the sum of the sizes of the files written (one or two per input), savings
\* their difference, and percentage 0 for original_size 0 and
\* (original_size - new_size) / original_size * 100 otherwise.
C8_SummaryTotals ==
    \A i \in 1..Len(emitted) :
        emitted[i].sig = "stats"
        => LET st == emitted[i].val
           IN /\ st.total_files = Len(decoded)
              /\ st.original_size = SumBytes(decoded)
              /\ st.new_size = SumBytes(written)
              /\ \A j \in 1..Len(decoded) :
                    Cardinality({k \in 1..Len(written) : written[k].pos = decoded[j].pos}) \in {1, 2}
              /\ st.savings = st.original_size - st.new_size
              /\ st.original_size = 0 => st.percentage.num = 0
              /\ st.original_size # 0
                    => /\ st.percentage.num = (st.original_size - st.new_size) * 100
                       /\ st.percentage.den = st.original_size

\* a step that asks to start a batch with the watermark enabled and no text
C9_Step ==
    \A s \in UiSettings :
        (s.watermark_enabled /\ s.watermark_text = Str0 /\ process_images(s))
        => /\ dialog' \in {"Watermark Text Required", "No Images"}
           /\ selected_files # <<>> => dialog' = "Watermark Text Required"
           /\ UNCHANGED <<selected_files, output_directory, controls_enabled, made_dirs, dir_chosen, fs,
                          worker_vars, search_vars>>

\* C9: asking to start a batch with the watermark enabled and an empty text
\* puts up the warning in the same step and starts nothing: no worker is
\* created, no directory is made, no file is read or written.
C9_EmptyWatermarkNeverStarts ==
    /\ [](dialog = "Watermark Text Required" => (pc = "none" /\ controls_enabled))
    /\ [][C9_Step]_vars

\* C9 witness: the warning is up, files are selected, and no output directory
\* has been set or made
C9_Witness ==
    /\ dialog = "Watermark Text Required"
    /\ Len(selected_files) = 2
    /\ output_directory = Str0
    /\ made_dirs = {}

\* the stems of the model's input files
ExpectedStem(file) ==
    CASE file = FILE_A -> <<"a">>
      [] file = FILE_B -> <<"a">>
      [] file = FILE_N -> <<"n">>

MarkerOf(part) ==
    CASE part = "full" -> <<>>
      [] part = "top" -> <<"_", "t", "o", "p">>
      [] part = "bottom" -> <<"_", "b", "o", "t", "t", "o", "m">>
      [] part = "left" -> <<"_", "l", "e", "f", "t">>
      [] part = "right" -> <<"_", "r", "i", "g", "h", "t">>

PartsOf(cut) ==
    CASE cut = "none" -> {"full"}
      [] cut = "horizontal" -> {"top", "bottom"}
      [] cut = "vertical" -> {"left", "right"}

\* {prefix}{original_stem}{suffix}{marker} of a written file
BaseName(w) ==
    settings.filename_prefix \o ExpectedStem(selected_files[w.pos + 1])
        \o settings.filename_suffix \o MarkerOf(w.img.part)

\* C10 as stated: for output_format webp, jpg, jpeg or png every output file
\* is written at {output_dir}/{prefix}{stem}{suffix}{marker}.{ext}, with ext
\* webp, jpg or png (jpg for jpeg).
C10_OutputPathUnderOutputDir ==
    \A i \in 1..Len(written) :
        LET w == written[i]
            fmt == settings.output_format
            ext == IF fmt \in {JPG, JPEG} THEN <<"j", "p", "g">> ELSE fmt
        IN fmt \in {WEBP, JPG, JPEG, PNG}
           => /\ w.img.part \in PartsOf(settings.cut_mode)
              /\ w.path = output_dir \o <<"/">> \o BaseName(w) \o <<".">> \o ext

\* C10 as amended: the file name is {prefix}{stem}{suffix}{marker}.{ext} with
\* ext the output_format itself (jpeg for jpeg), and the path is
\* os.path.join(output_dir, name): {output_dir}/{name}, or the name alone when
\* the prefix begins with the path separator.
C10_OutputPathJoined ==
    \A i \in 1..Len(written) :
        LET w == written[i]
            fmt == settings.output_format
            name == BaseName(w) \o <<".">> \o fmt
            absolute == settings.filename_prefix # <<>> /\ settings.filename_prefix[1] = "/"
        IN fmt \in {WEBP, JPG, JPEG, PNG}
           => /\ w.img.part \in PartsOf(settings.cut_mode)
              /\ w.path = IF absolute THEN name ELSE output_dir \o <<"/">> \o name

\* C10 witness: a right half written for output_format jpeg with suffix and an
\* absolute prefix, and a left half before it
C10_Witness ==
    /\ settings.output_format = JPEG
    /\ settings.filename_suffix = SUFFIX_S
    /\ settings.filename_prefix = PREFIX_ABS
    /\ Len(written) = 2
    /\ written[1].img.part = "left"
    /\ written[2].img.part = "right"


\* number of disk encodes of the run for the file at position pos
WrittenFor(pos) == Cardinality({k \in 1..Len(written) : written[k].pos = pos})

\* the worker is through with the file at position pos
Completed(pos) == pos < idx \/ (pos = idx /\ pc = "progress")

\* C11: for output_format png with a target size the encoder ignores the
\* target: no probe encode is made, every decoded image gets exactly one
\* encode to disk, which is the PNG encode that takes no quality, and no error
\* is reported.
C11_PngIgnoresTarget ==
    (output_format = PNG /\ settings.target_size_kb > 0)
    => /\ probes = <<>>
       /\ \A i \in 1..Len(written) :
            written[i].format = PNG /\ written[i].quality = NO_QUALITY
       /\ \A j \in 1..Len(decoded) :
            /\ WrittenFor(decoded[j].pos) <= 1
            /\ Completed(decoded[j].pos) => WrittenFor(decoded[j].pos) = 1
       /\ decoded # <<>> => ~HasSignal("error")

\* C11 witness: a png run with a target size has completed with its one file written
C11_Witness ==
    /\ output_format = PNG
    /\ settings.target_size_kb = MaxTargetKb
    /\ pc = "done"
    /\ Len(written) = 1

\* C12: the search stops probing as soon as its interval is empty: no probe
\* encode is made from a state where low > high.
C12_NoProbeOnEmptyInterval ==
    \A i \in 1..Len(probes) : probes[i].low <= probes[i].high

\* C13: every quality the search probes, the quality it returns and the
\* quality of the final encode lie in 1..100.
C13_QualitiesInRange ==
    /\ \A i \in 1..Len(probes) : probes[i].quality \in 1..100
    /\ SearchReturned => quality \in 1..100
    /\ \A i \in 1..Len(written) :
        (settings.target_size_kb > 0 /\ written[i].format \in {WEBP, JPG, JPEG})
        => written[i].quality \in 1..100

\* C14: when no quality of 1..100 is within the target (webp or jpeg), the
\* search returns the default quality 85 and the file is encoded at 85.
C14_DefaultWhenNothingFits ==
    /\ (SearchReturned /\ \A q \in 1..100 : ~Fits(SearchImg, output_format, q))
        => quality = 85
    /\ \A i \in 1..Len(written) :
        (/\ settings.target_size_kb > 0
         /\ written[i].format \in {WEBP, JPG, JPEG}
         /\ \A q \in 1..100 : ~Fits(written[i].img, written[i].format, q))
        => written[i].quality = 85


\* what a finished search returns, read from its probes: the quality of the
\* last probe that was within the target, 85 when none was
SearchResult ==
    LET F == {i \in 1..Len(probes) : probes[i].size <= TargetBytes}
    IN IF F = {} THEN 85 ELSE probes[Max(F)].quality

\* number of disk encodes of the run for one part of the file at position pos
EncodesOf(pos, part) ==
    Cardinality({k \in 1..Len(written) : written[k].pos = pos /\ written[k].img.part = part})

\* every output image of a decoded file is encoded to disk at most once, and
\* exactly once when the worker is through with the file
C15_OncePerImage ==
    \A j \in 1..Len(decoded) :
        /\ \A k \in 1..Len(written) : written[k].img.part \in PartsOf(settings.cut_mode)
        /\ \A part \in PartsOf(settings.cut_mode) :
            /\ EncodesOf(decoded[j].pos, part) <= 1
            /\ Completed(decoded[j].pos) => EncodesOf(decoded[j].pos, part) = 1

\* a probe encode leaves the files alone; an encode to disk is of the image in
\* hand, made once the search is over and at the quality it returned, or at
\* the configured quality when there is no target
C15_Step ==
    /\ Len(probes') > Len(probes) => (fs' = fs /\ written' = written)
    /\ written' # written
        => /\ Len(written') = Len(written) + 1
           /\ SubSeq(written', 1, Len(written)) = written
           /\ LET w == written'[Len(written')]
              IN /\ w.img = Head(pending).img
                 /\ w.path = Head(pending).path
                 /\ IsLossy(w.format)
                    => IF settings.target_size_kb > 0
                       THEN Len(probes) = 10 /\ w.quality = SearchResult
                       ELSE probes = <<>> /\ w.quality = settings.quality

\* C15: save_image encodes each output image to disk exactly once, after the
\* search has finished and at the quality it returned (the configured quality
\* when target_size_kb = 0); a probe encode never creates or modifies a file.
C15_OneDiskEncodeAfterSearch == []C15_OncePerImage /\ [][C15_Step]_vars

\* C15 witness: both halves of a cut image are on disk, each after a search
\* that returned a quality below the default
C15_Witness ==
    /\ settings.target_size_kb > 0
    /\ settings.cut_mode = "horizontal"
    /\ pc = "progress"
    /\ Len(written) = 2
    /\ written[1].quality \in 1..84
    /\ written[2].quality \in 1..84
    /\ Len(probes) = 10


\* C16: given settings with the watermark enabled and an empty text, the
\* transform of a decoded image fails: the run is in its failed state and no
\* file of it has been written.
C16_EmptyWatermarkFailsFast ==
    (settings.watermark_enabled /\ settings.watermark_text = Str0 /\ decoded # <<>>)
    => (pc = "failed" /\ written = <<>>)

\* the worker has been started and has not emitted its terminal signal
InFlight == pc \in {"start", "loop", "save", "search", "encode", "progress", "finish"}

\* the total of the run is the length of the list, and every file decoded is one of it
C17_Totals ==
    (InFlight /\ pc # "start")
    => /\ total = Len(selected_files)
       /\ \A j \in 1..Len(decoded) : decoded[j].pos < total

C17_Step == InFlight => (selected_files' = selected_files /\ settings' = settings)

\* C17: between the start of a batch and its terminal notification no action
\* of the window changes the file list or the settings the worker uses, so the
\* worker processes the files selected at start and computes total_files and
\* the percentages against that list.
C17_ListFixedWhileInFlight == []C17_Totals /\ [][C17_Step]_vars

\* C18: a completed batch over n distinct input paths has written n distinct
\* files when cut_mode is none and 2n otherwise.
C18_DistinctOutputs ==
    pc = "done"
    => Cardinality({written[i].path : i \in 1..Len(written)})
        = Len(selected_files) * (IF settings.cut_mode = "none" THEN 1 ELSE 2)


\* the 'processed images' folder next to an input file of the model
SiblingFolder(file) ==
    CASE file \in {FILE_A, FILE_N} -> <<"/", "d", "/">> \o PROCESSED_IMAGES
      [] file = FILE_B -> <<"/", "e", "/">> \o PROCESSED_IMAGES

\* b begins with a
IsPrefix(a, b) == Len(a) <= Len(b) /\ SubSeq(b, 1, Len(a)) = a

\* C19: in every batch started while the user has never chosen an output
\* folder, the worker's output directory is the 'processed images' folder next
\* to the first input file of that batch, that folder has been created, and
\* every output of the batch is written in it.
C19_DefaultFolderPerBatch ==
    (pc # "none" /\ ~dir_chosen)
    => LET folder == SiblingFolder(selected_files[1])
       IN /\ output_dir = folder
          /\ folder \in made_dirs
          /\ \A i \in 1..Len(written) : IsPrefix(folder \o <<"/">>, written[i].path)

\* the list handed to a worker has no path twice and only paths with a
\* recognised image extension (of the model's inputs, a.png and a.jpg)
C20_Handed ==
    pc = "start"
    => /\ \A i, j \in 1..Len(selected_files) : i # j => selected_files[i] # selected_files[j]
       /\ \A i \in 1..Len(selected_files) : selected_files[i] \in {FILE_A, FILE_B}

\* the list only grows at its end, or is emptied
C20_Step == selected_files' = <<>> \/ IsPrefix(selected_files, selected_files')

\* C20: after any sequence of add-files, drag-and-drop and clear operations the
\* list handed to the worker when a batch starts is in insertion order, has no
\* path twice and holds only paths with an extension of png, jpg, jpeg, bmp,
\* gif, tiff, webp.
C20_ListOrderedUniqueImages == []C20_Handed /\ [][C20_Step]_vars


\* C21: no output file of a batch is written to a path that is one of the
\* batch's input paths, whatever the output directory, prefix, suffix, cut
\* mode and output format.
C21_NoInputOverwritten ==
    \A i \in 1..Len(written) :
        \A j \in 1..Len(selected_files) : written[i].path # selected_files[j]


\* the probes of the current search whose size was within the target
FittingProbes == {i \in 1..Len(probes) : probes[i].size <= TargetBytes}

\* the search of a lossy format with a target is over: it has returned, or the
\* file it was made for is on disk
SearchOver ==
    /\ settings.target_size_kb > 0
    /\ output_format \in {WEBP, JPG, JPEG}
    /\ \/ pc = "encode"
       \/ pc = "progress" /\ written # <<>>

\* C22: for every size function, monotone or not, the quality the search
\* returns is 85 when no probe of the call was within the target, and
\* otherwise the quality of the last probe that was within it; so whenever a
\* probe fit, the file written is within the target.
C22_ReturnsLastFittingProbe ==
    SearchOver
    => /\ FittingProbes = {} => quality = 85
       /\ FittingProbes # {}
            => /\ quality = probes[Max(FittingProbes)].quality
               /\ pc = "encode"
                    => EncodedSize(Head(pending).img, output_format, quality) <= TargetBytes
               /\ pc = "progress"
                    => /\ written[Len(written)].quality = quality
                       /\ written[Len(written)].bytes <= TargetBytes

\* C22 witness: a file is on disk within the target at a quality above one
\* that does not fit (a size function that is not monotone)
C22_Witness ==
    /\ SearchOver
    /\ pc = "progress"
    /\ FittingProbes # {}
    /\ written[1].quality = probes[Max(FittingProbes)].quality
    /\ written[1].bytes <= TargetBytes
    /\ \E q \in 1..(written[1].quality - 1) : ~Fits(written[1].img, written[1].format, q)

====
